---- MODULE Spec2Model ----
(***************************************************************************)
(* Model of the TIFF patch dataset of careamics_restoration                *)
(* (src/src/careamics_restoration/dataset/dataset.py, class TiffDataset):  *)
(* construction, per-worker file iteration, image reading and axis         *)
(* handling, and the tiling / stitching geometry used by the patch         *)
(* extraction modes.                                                       *)
(*                                                                         *)
(* Python values are modelled as follows.  An optional value (None or an   *)
(* attribute never assigned) is the empty sequence <<>>, a present value v *)
(* is <<v>>.  An array is its shape, a sequence of extents.  A raised      *)
(* exception is named after the statement that raises it.                  *)
(***************************************************************************)
EXTENDS FiniteSets, Integers, Sequences, TLC

\* ---------------------------------------------------------------- bounds
MaxFiles == 3        \* files below the data directory
MaxWorkers == 3      \* data-loader worker processes
MaxStat == 2         \* largest mean / std value passed to the constructor
MaxDims == 5         \* dimensions of an array stored in a file
MaxExtent == 3       \* extent of one dimension of a stored array
MaxSamples == 2      \* samples of an image handed to patch extraction
MaxSide == 4         \* height / width of an image handed to patch extraction

VARIABLES
    \* --- TiffDataset construction and iteration
    phase,            \* "new", "constructed" or "failed" (the constructor raised)
    raised,           \* exception that left __init__, "none" if none
    args,             \* the constructor's arguments data_path, mean, std
    files,            \* self.files
    mean,             \* self.mean, <<>> while the attribute does not exist
    std,              \* self.std,  <<>> while the attribute does not exist
    statsCalls,       \* invocations of calculate_mean_and_std
    worker_info,      \* torch worker info: <<>> (None) or <<num_workers>>
    worker,           \* per worker id: position of its iterate_files generator
    \* --- read_image / fix_axes
    axes,             \* self.axes, a sequence of axis symbols
    file,             \* the file handed to read_image: kind and stored shape
    call,             \* the method applied: "none", "read_image", "fix_axes"
    result,           \* what the call returned or raised
    \* --- patch extraction and stitching
    image,            \* shape (N, Y, X) of the sample handed to extraction
    patch_size,       \* self.patch_size
    patch_overlap,    \* self.patch_overlap
    patch_extraction_method,
    patches,          \* the extracted patches
    canvas,           \* stitched output: per pixel the values written to it
    step              \* "start", "extracted", "stitched"

vars == <<phase, raised, args, files, mean, std, statsCalls, worker_info, worker,
          axes, file, call, result,
          image, patch_size, patch_overlap, patch_extraction_method, patches,
          canvas, step>>

datasetVars == <<phase, raised, args, files, mean, std, statsCalls, worker_info, worker>>
readVars == <<axes, file, call, result>>
tileVars == <<image, patch_size, patch_overlap, patch_extraction_method, patches,
              canvas, step>>

\* ------------------------------------------------------------- helpers
Min(a, b) == IF a <= b THEN a ELSE b
Max(a, b) == IF a >= b THEN a ELSE b
CeilDiv(a, b) == (a + b - 1) \div b

RECURSIVE Prod(_)
Prod(s) == IF s = <<>> THEN 1 ELSE s[1] * Prod(Tail(s))

Range(s) == {s[k] : k \in DOMAIN s}

\* Python truthiness of an optional number: None and 0 are falsy.
Truthy(v) == v # <<>> /\ v[1] # 0

\* sorted(...) of a set of paths (paths are numbered in path order)
RECURSIVE sorted(_)
sorted(S) ==
    IF S = {} THEN <<>>
    ELSE LET m == CHOOSE x \in S : \A y \in S : x <= y
         IN <<m>> \o sorted(S \ {m})

\* ------------------------------------------------- TiffDataset.__init__
\* list_files: sorted recursive glob; raises ValueError when nothing matches.
list_files_noraise(data_path) ==
    [raised |-> FALSE, files |-> sorted(data_path)]

list_files(data_path) ==
    [raised |-> data_path = {}, files |-> sorted(data_path)]

\* calculate_mean_and_std: its first statement evaluates self.iterate_path,
\* an attribute neither the class nor __init__ defines, so the call raises
\* AttributeError before any sample is read.
calculate_mean_and_std ==
    [raised |-> "AttributeError", mean |-> <<>>, std |-> <<>>]

\* __init__(data_path, ..., mean, std): the file list, then the statistics
\* when `not mean or not std`.  The supplied mean and std are never stored.
Construct(data_path, m, s) ==
    /\ phase = "new"
    /\ args' = [data_path |-> data_path, mean |-> m, std |-> s]
    /\ LET lf == list_files(data_path) IN
       IF lf.raised
       THEN /\ phase' = "failed"
            /\ raised' = "NoInputFiles"
            /\ UNCHANGED <<files, mean, std, statsCalls>>
       ELSE /\ files' = lf.files
            /\ IF ~Truthy(m) \/ ~Truthy(s)
               THEN LET st == calculate_mean_and_std IN
                    /\ statsCalls' = statsCalls + 1
                    /\ phase' = "failed"
                    /\ raised' = st.raised
                    /\ mean' = st.mean
                    /\ std' = st.std
               ELSE /\ phase' = "constructed"
                    /\ UNCHANGED <<raised, mean, std, statsCalls>>
    /\ UNCHANGED <<worker_info, worker>>
    /\ UNCHANGED <<readVars, tileVars>>

\* --------------------------------------------- TiffDataset.iterate_files
\* worker_id / num_workers as iterate_files derives them from the worker info
num_workers == IF worker_info = <<>> THEN 1 ELSE worker_info[1]

\* line 165: the file at (0-based) index i belongs to worker worker_id
assigned(i, n, worker_id) == i % n = worker_id

Assigned(n, worker_id) == {i \in 0 .. Len(files) - 1 : assigned(i, n, worker_id)}

\* The data loader creates the iterators: one per worker process, or a
\* single one in the main process when there is no worker info.
StartIteration(info) ==
    /\ phase = "constructed"
    /\ worker = <<>>
    /\ worker_info' = info
    /\ worker' = [w \in 1 .. (IF info = <<>> THEN 1 ELSE info[1]) |->
                    [i |-> 0, pc |-> "running", attempted |-> <<>>, samples |-> <<>>]]
    /\ UNCHANGED <<phase, raised, args, files, mean, std, statsCalls>>
    /\ UNCHANGED <<readVars, tileVars>>

\* the for loop passes over a file of another worker
WorkerSkip(w) ==
    /\ w \in DOMAIN worker
    /\ worker[w].pc = "running"
    /\ worker[w].i < Len(files)
    /\ ~assigned(worker[w].i, num_workers, w - 1)
    /\ worker' = [worker EXCEPT ![w].i = @ + 1]
    /\ UNCHANGED <<phase, raised, args, files, mean, std, statsCalls, worker_info>>
    /\ UNCHANGED <<readVars, tileVars>>

\* the for loop reaches a file of this worker: line 166 calls self.read_tiff,
\* a method the class does not define (the reader is named read_image), so
\* AttributeError leaves the generator and ends the iteration.
WorkerRead(w) ==
    /\ w \in DOMAIN worker
    /\ worker[w].pc = "running"
    /\ worker[w].i < Len(files)
    /\ assigned(worker[w].i, num_workers, w - 1)
    /\ worker' = [worker EXCEPT ![w].attempted = Append(@, worker[w].i),
                                ![w].pc = "raised"]
    /\ UNCHANGED <<phase, raised, args, files, mean, std, statsCalls, worker_info>>
    /\ UNCHANGED <<readVars, tileVars>>

\* the for loop ends: the generator is exhausted
WorkerExhaust(w) ==
    /\ w \in DOMAIN worker
    /\ worker[w].pc = "running"
    /\ worker[w].i >= Len(files)
    /\ worker' = [worker EXCEPT ![w].pc = "exhausted"]
    /\ UNCHANGED <<phase, raised, args, files, mean, std, statsCalls, worker_info>>
    /\ UNCHANGED <<readVars, tileVars>>

\* ------------------------------------------------ TiffDataset.fix_axes
\* str.replace(old, ""): the string without the occurrences of old, found
\* left to right and not overlapping
RECURSIVE replace(_, _)
replace(s, old) ==
    IF Len(s) < Len(old) THEN s
    ELSE IF SubSeq(s, 1, Len(old)) = old
         THEN replace(SubSeq(s, Len(old) + 1, Len(s)), old)
         ELSE <<s[1]>> \o replace(Tail(s), old)

\* ndarray.reshape(-1, *tail): the leading extent is what remains of the size
reshape(shape, tail) == <<Prod(shape) \div Prod(tail)>> \o tail

\* fix_axes(sample) on a float array (read_image converts to float32, so the
\* object-array branch is not taken): with S or T among the axes the leading
\* len(axes without "Z" and without "YX") dimensions are folded into one,
\* otherwise one dimension of extent 1 is put in front.
fix_axes(sample) ==
    IF "S" \in Range(axes) \/ "T" \in Range(axes)
    THEN LET new_axes_len == Len(replace(replace(axes, <<"Z">>), <<"Y", "X">>))
         IN reshape(sample, SubSeq(sample, new_axes_len + 1, Len(sample)))
    ELSE <<1>> \o sample

\* ---------------------------------------------- TiffDataset.read_image
\* ndarray.squeeze(): the dimensions of extent 1 are removed
squeeze(shape) == SelectSeq(shape, LAMBDA d : d # 1)

\* read_image(file_path): existence check (raises without logging), imread
\* (logs and re-raises), squeeze, the two dimension checks, fix_axes.
read_image(file_path) ==
    IF file_path.kind = "missing"
    THEN [raised |-> "NotExists", logged |-> FALSE, shape |-> <<>>]
    ELSE IF file_path.kind = "corrupt"
    THEN [raised |-> "ReadError", logged |-> TRUE, shape |-> <<>>]
    ELSE LET sample == squeeze(file_path.shape) IN
         IF Len(sample) < 2 \/ Len(sample) > 4
         THEN [raised |-> "DataDimensions", logged |-> FALSE, shape |-> <<>>]
         ELSE IF Len(axes) # Len(sample)
         THEN [raised |-> "AxesLength", logged |-> FALSE, shape |-> <<>>]
         ELSE [raised |-> "none", logged |-> FALSE, shape |-> fix_axes(sample)]

\* a caller applies read_image to a file
ReadImageCall ==
    /\ call = "none"
    /\ call' = "read_image"
    /\ result' = read_image(file)
    /\ UNCHANGED <<axes, file>>
    /\ UNCHANGED <<datasetVars, tileVars>>

\* a caller applies fix_axes to an array that has one dimension per axis
FixAxesCall ==
    /\ call = "none"
    /\ file.kind = "ok"
    /\ Len(file.shape) = Len(axes)
    /\ call' = "fix_axes"
    /\ result' = [raised |-> "none", logged |-> FALSE, shape |-> fix_axes(file.shape)]
    /\ UNCHANGED <<axes, file>>
    /\ UNCHANGED <<datasetVars, tileVars>>

\* __iter__ without a patch extraction method, lines 203-206: the loop runs
\* over sample[0], the first entry along the leading axis, and puts two axes
\* of extent 1 in front of each entry; the arrays are given by their shapes,
\* in the order in which they go to normalize (line 207) and are yielded
whole_images(sample) ==
    [k \in 1 .. sample[2] |-> <<1, 1>> \o SubSeq(sample, 3, Len(sample))]

\* a caller runs the body of __iter__ for one file with no extraction method
\* configured, on the sample the reader returns for it
WholeImagesCall ==
    /\ call = "none"
    /\ read_image(file).raised = "none"
    /\ call' = "whole_images"
    /\ result' = read_image(file)
    /\ patches' = whole_images(read_image(file).shape)
    /\ UNCHANGED <<axes, file>>
    /\ UNCHANGED datasetVars
    /\ UNCHANGED <<image, patch_size, patch_overlap, patch_extraction_method,
                   canvas, step>>

\* axis descriptors: the symbols of STCZYX in that order, Y and X present
AxisOrder == <<"S", "T", "C", "Z", "Y", "X">>
Descriptors ==
    {SelectSeq(AxisOrder, LAMBDA c : c \in P \cup {"Y", "X"}) :
        P \in SUBSET {"S", "T", "C", "Z"}}

Shapes == UNION {[1 .. n -> 1 .. MaxExtent] : n \in 1 .. MaxDims}

Files == [kind : {"ok"}, shape : Shapes]
            \cup [kind : {"missing", "corrupt"}, shape : {<<>>}]

\* ------------------------------------------- patch extraction (tiling)
\* value of the pixel (n, y, x), 0-based, of an image of shape (N, Y, X)
\* filled like numpy.arange(size).reshape(shape)
pixel(shape, n, y, x) == (n * shape[2] + y) * shape[3] + x

\* the indices a[lo:hi] selects along an axis of extent n (numpy clips them)
slice(lo, hi, n) == Max(lo, 0) .. (Min(hi, n) - 1)

\* the sub-array image[n, ys, xs] as a function of its local position
crop(shape, n, ys, xs) ==
    LET y0 == CHOOSE y \in ys : \A z \in ys : y <= z
        x0 == CHOOSE x \in xs : \A z \in xs : x <= z
    IN [pos \in (0 .. Cardinality(ys) - 1) \X (0 .. Cardinality(xs) - 1) |->
            pixel(shape, n, y0 + pos[1], x0 + pos[2])]

\* sequential mode, one axis: ceil(extent / patch) tiles at a step of the
\* patch extent, the last one shifted back to end at the border
sequential_starts_unshifted(axis_size, tile_size) ==
    [k \in 1 .. CeilDiv(axis_size, tile_size) |-> (k - 1) * tile_size]

sequential_starts(axis_size, tile_size) ==
    [k \in 1 .. CeilDiv(axis_size, tile_size) |->
        Min((k - 1) * tile_size, axis_size - tile_size)]

\* the (sample, tile row, tile column) of the j-th of N * rows * cols patches,
\* samples outermost
TileIndex(j, rows, cols) ==
    [n |-> (j - 1) \div (rows * cols),
     r |-> (((j - 1) % (rows * cols)) \div cols) + 1,
     c |-> ((j - 1) % cols) + 1]

extract_patches_sequential(sample, size) ==
    LET ys == sequential_starts(sample[2], size[1])
        xs == sequential_starts(sample[3], size[2])
    IN [j \in 1 .. sample[1] * Len(ys) * Len(xs) |->
          LET t == TileIndex(j, Len(ys), Len(xs)) IN
          [data |-> crop(sample, t.n,
                         slice(ys[t.r], ys[t.r] + size[1], sample[2]),
                         slice(xs[t.c], xs[t.c] + size[2], sample[3]))]]

\* predict mode, one axis: the tiles of the sequential grid, each widened by
\* the overlap towards its neighbours and clamped at the image border; per
\* tile the interval cut from the image (crop), the interval of the output it
\* fills (stitch) and the interval of the tile that is kept (overlap_crop)
compute_crop_and_stitch_coords_1d_misplaced(axis_size, tile_size, overlap) ==
    [k \in 1 .. CeilDiv(axis_size, tile_size) |->
        LET lo == (k - 1) * tile_size
            hi == Min(k * tile_size, axis_size)
            clo == Max(0, lo - overlap)
            chi == Min(axis_size, hi + overlap)
        IN [crop |-> <<clo, chi>>,
            stitch |-> <<clo, clo + (hi - lo)>>,
            overlap_crop |-> <<lo - clo, hi - clo>>]]

compute_crop_and_stitch_coords_1d(axis_size, tile_size, overlap) ==
    [k \in 1 .. CeilDiv(axis_size, tile_size) |->
        LET lo == (k - 1) * tile_size
            hi == Min(k * tile_size, axis_size)
            clo == Max(0, lo - overlap)
            chi == Min(axis_size, hi + overlap)
        IN [crop |-> <<clo, chi>>,
            stitch |-> <<lo, hi>>,
            overlap_crop |-> <<lo - clo, hi - clo>>]]

extract_patches_predict(sample, size, overlaps) ==
    LET ys == compute_crop_and_stitch_coords_1d(sample[2], size[1], overlaps[1])
        xs == compute_crop_and_stitch_coords_1d(sample[3], size[2], overlaps[2])
    IN [j \in 1 .. sample[1] * Len(ys) * Len(xs) |->
          LET t == TileIndex(j, Len(ys), Len(xs)) IN
          [data |-> crop(sample, t.n,
                         slice(ys[t.r].crop[1], ys[t.r].crop[2], sample[2]),
                         slice(xs[t.c].crop[1], xs[t.c].crop[2], sample[3])),
           sample |-> t.n,
           stitch |-> <<ys[t.r].stitch, xs[t.c].stitch>>,
           overlap_crop |-> <<ys[t.r].overlap_crop, xs[t.c].overlap_crop>>]]

\* __iter__, lines 182-190: the extraction the configured method selects
extract(method, sample) ==
    IF method = "predict"
    THEN extract_patches_predict(sample, patch_size, patch_overlap)
    ELSE extract_patches_sequential(sample, patch_size)

Extract ==
    /\ step = "start"
    /\ patches' = extract(patch_extraction_method, image)
    /\ step' = "extracted"
    /\ UNCHANGED <<image, patch_size, patch_overlap, patch_extraction_method, canvas>>
    /\ UNCHANGED <<datasetVars, readVars>>

\* ------------------------------------------------------------ stitching
Pixels(shape) == (0 .. shape[1] - 1) \X (0 .. shape[2] - 1) \X (0 .. shape[3] - 1)

\* patch p writes the canvas pixel c
covers(p, c) ==
    /\ p.sample = c[1]
    /\ c[2] \in p.stitch[1][1] .. (p.stitch[1][2] - 1)
    /\ c[3] \in p.stitch[2][1] .. (p.stitch[2][2] - 1)

\* the value patch p writes to the canvas pixel c: the pixel of the kept part
\* of the tile at the same offset
written(p, c) ==
    p.data[<<p.overlap_crop[1][1] + (c[2] - p.stitch[1][1]),
             p.overlap_crop[2][1] + (c[3] - p.stitch[2][1])>>]

\* stitch(patches, output_shape): a zero canvas, then every patch in turn;
\* per pixel the number of writes it received and the value it holds
stitch(ps, output_shape) ==
    [c \in Pixels(output_shape) |->
        LET js == {j \in DOMAIN ps : covers(ps[j], c)} IN
        [writes |-> Cardinality(js),
         value |-> IF js = {} THEN 0
                   ELSE written(ps[CHOOSE j \in js : \A i \in js : i <= j], c)]]

Stitch ==
    /\ step = "extracted"
    /\ patch_extraction_method = "predict"
    /\ canvas' = stitch(patches, image)
    /\ step' = "stitched"
    /\ UNCHANGED <<image, patch_size, patch_overlap, patch_extraction_method, patches>>
    /\ UNCHANGED <<datasetVars, readVars>>

\* images and the patch and overlap specifications valid for them
Images == (1 .. MaxSamples) \X (1 .. MaxSide) \X (1 .. MaxSide)
PatchSizes(shape) == (1 .. shape[2]) \X (1 .. shape[3])
Overlaps(size) == (0 .. size[1] - 1) \X (0 .. size[2] - 1)

\* ------------------------------------------------------- specification
OptStat == {<<>>} \cup {<<v>> : v \in 0 .. MaxStat}

IdleRead ==
    /\ axes = <<>>
    /\ file = [kind |-> "ok", shape |-> <<>>]
    /\ call = "none"
    /\ result = [raised |-> "none", logged |-> FALSE, shape |-> <<>>]

IdleTiles ==
    /\ image = <<>>
    /\ patch_size = <<>>
    /\ patch_overlap = <<>>
    /\ patch_extraction_method = "none"
    /\ patches = <<>>
    /\ canvas = <<>>
    /\ step = "start"

IdleDataset ==
    /\ phase = "new"
    /\ raised = "none"
    /\ args = [data_path |-> {}, mean |-> <<>>, std |-> <<>>]
    /\ files = <<>>
    /\ mean = <<>>
    /\ std = <<>>
    /\ statsCalls = 0
    /\ worker_info = <<>>
    /\ worker = <<>>

Init == IdleDataset /\ IdleRead /\ IdleTiles

Next ==
    \/ \E data_path \in SUBSET (1 .. MaxFiles), m \in OptStat, s \in OptStat :
          Construct(data_path, m, s)
    \/ \E info \in {<<>>} \cup {<<n>> : n \in 1 .. MaxWorkers} : StartIteration(info)
    \/ \E w \in 1 .. MaxWorkers : WorkerSkip(w)
    \/ \E w \in 1 .. MaxWorkers : WorkerRead(w)
    \/ \E w \in 1 .. MaxWorkers : WorkerExhaust(w)

Spec == Init /\ [][Next]_vars

InitRead ==
    /\ IdleDataset /\ IdleTiles
    /\ axes \in Descriptors
    /\ file \in Files
    /\ call = "none"
    /\ result = [raised |-> "none", logged |-> FALSE, shape |-> <<>>]

NextRead == ReadImageCall \/ FixAxesCall \/ WholeImagesCall

SpecRead == InitRead /\ [][NextRead]_vars

InitTiles ==
    /\ IdleDataset /\ IdleRead
    /\ image \in Images
    /\ patch_size \in PatchSizes(image)
    /\ patch_extraction_method \in {"sequential", "predict"}
    /\ patch_overlap \in (IF patch_extraction_method = "predict"
                           THEN Overlaps(patch_size) ELSE {<<>>})
    /\ patches = <<>>
    /\ canvas = <<>>
    /\ step = "start"

NextTiles == Extract \/ Stitch

SpecTiles == InitTiles /\ [][NextTiles]_vars

\* -------------------------------------------------- claims on Spec
Ended(w) == worker[w].pc # "running"

\* C1: once a worker's iteration has ended, the files it invoked the reader
\* on are exactly the files at the indices i with i % num_workers = worker_id
\* (so the workers' file sets are disjoint and together are the whole list).
C1_WorkerReadsAssignedFiles ==
    \A w \in DOMAIN worker :
        Ended(w) => Range(worker[w].attempted) = Assigned(num_workers, w - 1)

\* C2: when mean and std are both supplied (0 included) the estimation is
\* never run and the supplied values are the dataset's mean and std.
C2_SuppliedStatsAreUsed ==
    (phase # "new" /\ args.data_path # {} /\ args.mean # <<>> /\ args.std # <<>>)
        => /\ statsCalls = 0
           /\ phase = "constructed"
           /\ mean = args.mean
           /\ std = args.std

\* C3: constructing on a directory without TIFF files fails with the
\* no-input-files error, before the statistics are estimated and without a
\* usable dataset: no iterator over it ever exists.
C3_EmptyDirectoryFails ==
    (phase # "new" /\ args.data_path = {})
        => /\ phase = "failed"
           /\ raised = "NoInputFiles"
           /\ statsCalls = 0
           /\ worker = <<>>

C3_Witness ==
    phase = "failed" /\ raised = "NoInputFiles" /\ args.data_path = {}

\* C10: a worker's iteration ends exhausted, after every file assigned to it
\* has been read and its patches yielded, in file-list order.
C10_IterationProcessesFilesInOrder ==
    \A w \in DOMAIN worker :
        Ended(w) => /\ worker[w].pc = "exhausted"
                    /\ worker[w].samples = sorted(Assigned(num_workers, w - 1))

\* ---------------------------------------------- claims on SpecRead
\* extent (in the array handed to the call) of the axis named sym, 1 when
\* the descriptor does not name it
AxisIndex(sym) == CHOOSE k \in DOMAIN axes : axes[k] = sym
Extent(sym) == IF sym \in Range(axes) THEN file.shape[AxisIndex(sym)] ELSE 1

\* C4: a read that fails because the file is missing or cannot be read
\* or decoded raises to the caller and has logged the error first.
C4_ReadFailureIsLoggedAndRaised ==
    (call = "read_image" /\ file.kind \in {"missing", "corrupt"})
        => result.raised # "none" /\ result.logged

\* C5: read_image fails whenever the descriptor's length differs from the
\* stored array's dimensionality, and succeeds for every stored array of 2 to
\* 4 dimensions with as many dimensions as the descriptor has symbols.
C5_ReadChecksDescriptorLength ==
    (call = "read_image" /\ file.kind = "ok")
        => /\ Len(axes) # Len(file.shape) => result.raised # "none"
           /\ (Len(file.shape) \in 2 .. 4 /\ Len(axes) = Len(file.shape))
                 => result.raised = "none"

\* C6: fix_axes returns the layout (sample, channel, [depth,] height, width),
\* of rank 5 with Z and 4 without, the sample extent being the product of the
\* S and T extents (1 without them) and the channel extent that of C (1
\* without it).
C6_CanonicalLayout ==
    call = "fix_axes"
        => result.shape =
              <<Extent("S") * Extent("T"), Extent("C")>>
                 \o (IF "Z" \in Range(axes) THEN <<Extent("Z")>> ELSE <<>>)
                 \o <<Extent("Y"), Extent("X")>>

\* C7: with S or T in the descriptor the first extent of the result is the
\* product of the S and T extents, and the extents that follow are those of
\* the other axes, unchanged and in the descriptor's order.
C7_OnlySampleAxesMerged ==
    (call = "fix_axes" /\ ("S" \in Range(axes) \/ "T" \in Range(axes)))
        => /\ result.shape[1] = Extent("S") * Extent("T")
           /\ Tail(result.shape) =
                 [k \in 1 .. Cardinality({j \in DOMAIN axes : axes[j] \notin {"S", "T"}}) |->
                     file.shape[k + Cardinality({j \in DOMAIN axes : axes[j] \in {"S", "T"}})]]

\* --------------------------------------------- claims on SpecTiles
\* the image pixels (as their values) of sample n
SamplePixels(n) ==
    {pixel(image, n, y, x) : y \in 0 .. image[2] - 1, x \in 0 .. image[3] - 1}

\* the tiles of sample n among the extracted patches
TilesOf(n) ==
    {j \in DOMAIN patches : Range(patches[j].data) \subseteq SamplePixels(n)}

\* the image rows (columns) a tile's pixels lie in
RowsOf(j) == {(v \div image[3]) % image[2] : v \in Range(patches[j].data)}
ColsOf(j) == {v % image[3] : v \in Range(patches[j].data)}

\* C8: sequential extraction yields per sample ceil(Y / patch_Y) rows times
\* ceil(X / patch_X) columns of tiles, each of exactly the patch extent and
\* inside the image, and the tiles of a sample contain every pixel of it.
C8_SequentialTilesCoverImage ==
    (step = "extracted" /\ patch_extraction_method = "sequential")
        => /\ Len(patches) = image[1] * CeilDiv(image[2], patch_size[1])
                                      * CeilDiv(image[3], patch_size[2])
           /\ \A j \in DOMAIN patches :
                 /\ DOMAIN patches[j].data =
                       (0 .. patch_size[1] - 1) \X (0 .. patch_size[2] - 1)
                 /\ \E n \in 0 .. image[1] - 1 : j \in TilesOf(n)
                 /\ Cardinality(Range(patches[j].data)) = patch_size[1] * patch_size[2]
           /\ \A n \in 0 .. image[1] - 1 :
                 /\ Cardinality({RowsOf(j) : j \in TilesOf(n)})
                       = CeilDiv(image[2], patch_size[1])
                 /\ Cardinality({ColsOf(j) : j \in TilesOf(n)})
                       = CeilDiv(image[3], patch_size[2])
                 /\ UNION {Range(patches[j].data) : j \in TilesOf(n)} = SamplePixels(n)

C8_Witness ==
    /\ step = "extracted"
    /\ patch_extraction_method = "sequential"
    /\ image[2] % patch_size[1] # 0
    /\ image[3] % patch_size[2] # 0
    /\ Len(patches) > image[1]

C11_OneWholeImagePerSample ==
    call = "whole_images"
        => /\ Len(patches) = result.shape[1]
           /\ \A j \in DOMAIN patches : patches[j][1] = 1 /\ patches[j][2] = 1

====
